---- MODULE Spec2Model ----
(***************************************************************************)
(* Model of the todo-list service: package initialisation of the          *)
(* migration registry (db/migrations), the command tree (app/cli.go,      *)
(* cmd/service/main.go) and the lifecycle of app.Start (app/app.go),      *)
(* together with its environment: OS signals, HTTP clients, the clock.    *)
(*                                                                         *)
(* Durations and instants are whole seconds.  Migration names are         *)
(* sequences of decimal digits, compared as Go compares strings.          *)
(***************************************************************************)
EXTENDS Integers, Sequences, FiniteSets, TLC

\* ------------------------------------------------------------------ bounds
MaxTime == 1        \* the clock runs freely up to here; a deadline may lie later
MaxInflight == 1    \* requests being handled at the same time, Spec
MaxCalls == 1       \* calls of CliCommand by goroutines other than main
MaxSorted == 2      \* calls of Migration.Sorted
MaxConcurrent == 2  \* requests being handled at the same time, ConcurrentSpec

\* ------------------------------------------------------- program constants
DefaultShutdownTimeout == 20
DefaultVersion == "unknown"
TelemetryPort == 3030
QuitCapacity == 1

VARIABLES
    pc,             \* position of the main goroutine
    sqlMigrations,  \* the embedded files, in the order Discover walks them
    walked,         \* how far the walk has got; Len(sqlMigrations) once it is over
    Migration,      \* the registry: migrations in the order they were created
    ldflags,        \* the value the linker was told to give Version, if any
    Version,        \* package variable app.Version
    environ,        \* the process environment
    config,         \* Start's local Config
    routes,         \* the router's route table
    listeners,      \* ports bound by listeners
    quit,           \* the signal channel (buffered)
    notified,       \* signals relayed to quit by signal.Notify
    now,            \* the clock
    ctx,            \* deadline of the shutdown context, once it exists
    inflight,       \* requests accepted and not yet answered
    lastResponse,   \* the latest response written, once there is one
    result,         \* what the start action gave back to the CLI framework
    trace,          \* lifecycle events of Start, in the order they happened
    commands,       \* commands returned by calls of CliCommand
    sorted          \* the lists calls of Migration.Sorted have returned

vars == <<pc, sqlMigrations, walked, Migration, ldflags, Version, environ, config,
          routes, listeners, quit, notified, now, ctx, inflight,
          lastResponse, result, trace, commands, sorted>>

None == "none"

\* ------------------------------------------------------------ migrations
\* The files the build may embed, in the order fs.WalkDir visits them
\* (lexical by path).  stamp is the digit prefix of the file name, empty when
\* the name does not start with digits followed by an underscore.
EmbeddedFiles ==
    << [path |-> "10_b.up.sql",  stamp |-> <<1, 0>>, kind |-> "up"],
       [path |-> "1_a.down.sql", stamp |-> <<1>>,    kind |-> "down"],
       [path |-> "1_a.up.sql",   stamp |-> <<1>>,    kind |-> "up"],
       [path |-> "test.sql",     stamp |-> <<>>,     kind |-> "other"],
       [path |-> "x.up.sql",     stamp |-> <<>>,     kind |-> "up"] >>

\* What a build fixes: the files the go:embed directive picks up (as
\* positions in EmbeddedFiles) and the value the linker is told to give
\* Version (-X app.Version=...), None when it is told nothing.
Builds ==
    { [embed |-> {1, 2, 3, 4}, ldflags |-> None],
      [embed |-> {3, 4},       ldflags |-> "v1.2.3"],
      [embed |-> {},           ldflags |-> None],
      [embed |-> {1, 5},       ldflags |-> "v1.2.3"],
      [embed |-> {4, 5},       ldflags |-> None] }

RECURSIVE SelectFiles(_, _)
SelectFiles(s, keep) ==
    IF s = <<>> THEN <<>>
    ELSE IF Len(s) \in keep
         THEN SelectFiles(SubSeq(s, 1, Len(s) - 1), keep) \o <<s[Len(s)]>>
         ELSE SelectFiles(SubSeq(s, 1, Len(s) - 1), keep)

\* Go's string comparison on names
RECURSIVE LexLess(_, _)
LexLess(a, b) ==
    IF a = <<>> THEN b # <<>>
    ELSE IF b = <<>> THEN FALSE
    ELSE IF Head(a) # Head(b) THEN Head(a) < Head(b)
    ELSE LexLess(Tail(a), Tail(b))

Names(ms) == {ms[i].name : i \in DOMAIN ms}

\* migrate.Migrations.getOrCreateMigration followed by setting Up or Down
Register(ms, f) ==
    IF f.stamp \in Names(ms)
    THEN [i \in DOMAIN ms |->
            IF ms[i].name = f.stamp
            THEN IF f.kind = "up" THEN [ms[i] EXCEPT !.up = f.path]
                                  ELSE [ms[i] EXCEPT !.down = f.path]
            ELSE ms[i]]
    ELSE Append(ms, [name |-> f.stamp,
                     up   |-> IF f.kind = "up" THEN f.path ELSE None,
                     down |-> IF f.kind = "down" THEN f.path ELSE None])

\* insertion of one migration into a list sorted by name
RECURSIVE InsertByName(_, _)
InsertByName(s, m) ==
    IF s = <<>> THEN <<m>>
    ELSE IF LexLess(m.name, Head(s).name) THEN <<m>> \o s
    ELSE <<Head(s)>> \o InsertByName(Tail(s), m)

RECURSIVE SortAsc(_)
SortAsc(ms) ==
    IF ms = <<>> THEN <<>>
    ELSE InsertByName(SortAsc(SubSeq(ms, 1, Len(ms) - 1)), ms[Len(ms)])

\* the registry is handed out as it is, in the order of creation
SortedInPlaceOrder(ms) == ms

\* migrate.Migrations.Sorted: a sorted copy of the registry
Sorted(ms) == SortAsc(ms)

\* --------------------------------------------------------- configuration
Env(port, prefix, timeout) ==
    [HTTP_PORT |-> port, HTTP_PATH_PREFIX |-> prefix, SHUTDOWN_TIMEOUT |-> timeout]

\* environments the process is started in; None is an unset variable
Environments ==
    { Env("8080", <<>>, None),
      Env("8080", <<"api">>, "1s"),
      Env("8080", <<"api">>, "-1s"),
      Env(None, <<>>, None),
      Env("abc", <<"api">>, "1s"),
      Env("8080", <<>>, "x") }

\* strconv.ParseInt on the port; 0 stands for "does not parse"
ParsePort(s) == IF s = "8080" THEN 8080 ELSE 0
PortParses(s) == s = "8080"

\* time.ParseDuration, in seconds
ParseDuration(s) == IF s = "-1s" THEN 0 - 1 ELSE IF s = "1s" THEN 1 ELSE 0
DurationParses(s) == s \in {"-1s", "1s"}

\* ginserver.Config: the port is a required key
HTTPConfigFails(env) ==
    \/ env.HTTP_PORT = None
    \/ ~PortParses(env.HTTP_PORT)

\* envconfig.Process("", &config) on type Config: the error it reports
ProcessFails(env) ==
    \/ HTTPConfigFails(env)
    \/ env.SHUTDOWN_TIMEOUT # None /\ ~DurationParses(env.SHUTDOWN_TIMEOUT)

\* ... and the record it fills in otherwise
Process(env) ==
    [HTTP |-> [Port |-> ParsePort(env.HTTP_PORT), Prefix |-> env.HTTP_PATH_PREFIX],
     ShutdownTimeout |-> IF env.SHUTDOWN_TIMEOUT = None
                         THEN DefaultShutdownTimeout
                         ELSE ParseDuration(env.SHUTDOWN_TIMEOUT)]

\* ------------------------------------------------------------ the router
HelloBody == [message |-> "Hello, World!"]
NotFoundBody == "404 page not found"

\* router.GET(basePath+"/version", ...) on the engine, whose base path is "/"
VersionPath(basePath) == basePath \o <<"version">>

\* the prefix is applied by the group and once more in the route
HelloPathTwice(basePath) == basePath \o basePath \o <<"hello">>

\* router.Group(basePath).GET("/hello", ...)
HelloPath(basePath) == basePath \o <<"hello">>

\* the handler answers with the default instead of the variable
VersionHandlerFixed(v) == [status |-> 200, body |-> [version |-> DefaultVersion]]

\* the two handlers Start registers
VersionHandler(v) == [status |-> 200, body |-> [version |-> v]]

HelloHandler == [status |-> 200, body |-> HelloBody]

Handle(h, v) == IF h = "version" THEN VersionHandler(v) ELSE HelloHandler

Req(method, path, query, header) ==
    [method |-> method, path |-> path, query |-> query, header |-> header]

\* requests clients send
Requests ==
    { Req("GET", <<"hello">>, "", ""),
      Req("GET", <<"hello">>, "a=1", "X-Test: 1"),
      Req("GET", <<"api", "hello">>, "a=1", ""),
      Req("GET", <<"version">>, "", "X-Test: 1"),
      Req("GET", <<"api", "version">>, "", ""),
      Req("POST", <<"hello">>, "", "") }

Matching(rt, r) == {e \in rt : e.method = r.method /\ e.path = r.path}

\* gin's dispatch: the route is found by method and URL path alone
ServeHTTP(rt, r, v) ==
    IF Matching(rt, r) = {}
    THEN [status |-> 404, body |-> NotFoundBody]
    ELSE Handle((CHOOSE e \in Matching(rt, r) : TRUE).handler, v)

\* ----------------------------------------------------------- the process
Signals == {"SIGINT", "SIGTERM", "SIGHUP"}

\* the listener is started before the group route is registered
StartOrderListenFirst ==
    << "MustProcess", "InitGin", "GET /version", "httpStart", "GET /hello",
       "ServeTelemetry", "Notify", "<-quit", "WithTimeout", "httpStop",
       "httpStop blocked", "return" >>

\* the routes are registered once the server listens
StartOrderRoutesLate ==
    << "MustProcess", "InitGin", "httpStart", "GET /version", "GET /hello",
       "ServeTelemetry", "Notify", "<-quit", "WithTimeout", "httpStop",
       "httpStop blocked", "return" >>

\* statement order of Start
StartOrder ==
    << "MustProcess", "InitGin", "GET /version", "GET /hello", "httpStart",
       "ServeTelemetry", "Notify", "<-quit", "WithTimeout", "httpStop",
       "httpStop blocked", "return" >>

IndexOf(p) == CHOOSE i \in DOMAIN StartOrder : StartOrder[i] = p
After(p) == IF IndexOf(p) < Len(StartOrder) THEN StartOrder[IndexOf(p) + 1] ELSE "returned"

Ended == {"panicked", "killed", "exited"}
Alive == pc \notin Ended

\* Go's zero value of Config, before the environment is processed
ZeroConfig == [HTTP |-> [Port |-> 0, Prefix |-> <<>>], ShutdownTimeout |-> 0]

Accepting == config.HTTP.Port \in listeners

\* a process that has ended holds no port and handles no request
EndAs(p) ==
    /\ pc' = p
    /\ listeners' = {}
    /\ inflight' = {}

\* one command, built once, is handed to every caller
CliCommandShared(addr) ==
    [addr |-> 1,
     Name |-> "app",
     Usage |-> "Run the service",
     Subcommands |-> << [Name |-> "start", Usage |-> "Start application", Action |-> "Start"] >>]

\* app.CliCommand: a new command at address addr
CliCommand(addr) ==
    [addr |-> addr,
     Name |-> "app",
     Usage |-> "Run the service",
     Subcommands |-> << [Name |-> "start", Usage |-> "Start application", Action |-> "Start"] >>]

Init ==
    /\ pc = "init"
    /\ \E b \in Builds :
          /\ sqlMigrations = SelectFiles(EmbeddedFiles, b.embed)
          /\ ldflags = b.ldflags
          /\ Version = IF b.ldflags = None THEN DefaultVersion ELSE b.ldflags
    /\ walked = 0
    /\ Migration = <<>>
    /\ environ \in Environments
    /\ config = ZeroConfig
    /\ routes = {}
    /\ listeners = {}
    /\ quit = <<>>
    /\ notified = {}
    /\ now = 0
    /\ ctx = {}
    /\ inflight = {}
    /\ lastResponse = <<>>
    /\ result = None
    /\ trace = <<>>
    /\ commands = <<>>
    /\ sorted = <<>>

\* ------------------------------------------------- package initialisation
\* the error of Discover is logged and init goes on
InitLogsError ==
    /\ walked' = Len(sqlMigrations)
    /\ UNCHANGED <<pc, listeners, inflight>>

\* init's panic(err)
InitPanic ==
    /\ EndAs("panicked")
    /\ UNCHANGED walked

\* db/migrations init: Discover visits one more embedded file.  A file that
\* is neither *.up.sql nor *.down.sql is skipped; a name without the digit
\* prefix is an error, which ends the walk, and init panics on it.  The walk
\* goes on for as long as it is not over and the process lives; init waits
\* for it (InitReturn), so it is over before pc leaves "init".
Discover ==
    /\ Alive
    /\ walked < Len(sqlMigrations)
    /\ LET f == sqlMigrations[walked + 1] IN
         IF f.kind = "other"
         THEN /\ walked' = walked + 1
              /\ UNCHANGED <<Migration, pc, listeners, inflight>>
         ELSE IF f.stamp = <<>>
         THEN /\ InitPanic
              /\ UNCHANGED Migration
         ELSE /\ walked' = walked + 1
              /\ Migration' = Register(Migration, f)
              /\ UNCHANGED <<pc, listeners, inflight>>
    /\ UNCHANGED <<sqlMigrations, ldflags, Version, environ, config, routes,
                   quit, notified, now, ctx, lastResponse, result, trace,
                   commands, sorted>>

\* init starts Discover in a goroutine and returns
DiscoverInBackground == TRUE

\* init returns once Discover has returned without an error
DiscoverReturned == walked = Len(sqlMigrations)

InitReturn ==
    /\ pc = "init"
    /\ DiscoverReturned
    /\ pc' = "main"
    /\ UNCHANGED <<sqlMigrations, walked, Migration, ldflags, Version, environ,
                   config, routes, listeners, quit, notified, now,
                   ctx, inflight, lastResponse, result, trace,
                   commands, sorted>>

\* ------------------------------------------------------------------ main
\* &cli.Command{...} allocates
NewAddr == Len(commands) + 1

\* main builds the command tree: app.CliCommand() and the db command
Main ==
    /\ pc = "main"
    /\ pc' = "cli.Run"
    /\ commands' = Append(commands, CliCommand(NewAddr))
    /\ UNCHANGED <<sqlMigrations, walked, Migration, ldflags, Version, environ,
                   config, routes, listeners, quit, notified, now,
                   ctx, inflight, lastResponse, result, trace,
                   sorted>>

\* cli.Run with "app start": the start action calls Start
RunStart ==
    /\ pc = "cli.Run"
    /\ pc' = StartOrder[1]
    /\ UNCHANGED <<sqlMigrations, walked, Migration, ldflags, Version, environ,
                   config, routes, listeners, quit, notified, now,
                   ctx, inflight, lastResponse, result, trace,
                   commands, sorted>>

\* cli.Run with a "db" subcommand: the migration runner lists the
\* migrations and the process ends
RunDb ==
    /\ pc = "cli.Run"
    /\ Len(sorted) < MaxSorted
    /\ sorted' = Append(sorted, Sorted(Migration))
    /\ EndAs("exited")
    /\ UNCHANGED <<sqlMigrations, walked, Migration, ldflags, Version, environ,
                   config, routes, quit, notified, now, ctx,
                   lastResponse, result, trace, commands>>

\* other goroutines, once the packages are initialised
CallCliCommand ==
    /\ Alive
    /\ pc # "init"
    /\ Len(commands) <= MaxCalls
    /\ commands' = Append(commands, CliCommand(NewAddr))
    /\ UNCHANGED <<pc, sqlMigrations, walked, Migration, ldflags, Version, environ,
                   config, routes, listeners, quit, notified, now,
                   ctx, inflight, lastResponse, result, trace,
                   sorted>>

CallSorted ==
    /\ Alive
    /\ pc # "init"
    /\ Len(sorted) < MaxSorted
    /\ sorted' = Append(sorted, Sorted(Migration))
    /\ UNCHANGED <<pc, sqlMigrations, walked, Migration, ldflags, Version, environ,
                   config, routes, listeners, quit, notified, now,
                   ctx, inflight, lastResponse, result, trace,
                   commands>>

\* ----------------------------------------------------------------- Start
\* one statement of Start has been executed
Step(p) ==
    /\ pc = p
    /\ pc' = After(p)
    /\ trace' = Append(trace, p)

\* the error of Process is dropped
ProcessErrorDropped(env) == FALSE

\* MustProcess panics when Process reports an error
MustProcessPanics(env) == ProcessFails(env)

\* the error is handed back to the caller of Start
ReturnError ==
    /\ pc' = "returned"
    /\ result' = "error"
    /\ UNCHANGED <<listeners, inflight>>

\* the panic leaves Start: nothing is returned to the caller
Panic ==
    /\ EndAs("panicked")
    /\ UNCHANGED result

\* envconfig.MustProcess("", &config)
MustProcess ==
    /\ pc = "MustProcess"
    /\ trace' = Append(trace, "MustProcess")
    /\ IF MustProcessPanics(environ)
       THEN /\ Panic
            /\ UNCHANGED config
       ELSE /\ pc' = After("MustProcess")
            /\ config' = Process(environ)
            /\ UNCHANGED <<listeners, inflight, result>>
    /\ UNCHANGED <<sqlMigrations, walked, Migration, ldflags, Version, environ,
                   routes, quit, notified, now, ctx, lastResponse, commands,
                   sorted>>

\* ginserver.InitGin(config.HTTP, log): a router with no route
InitGin ==
    /\ Step("InitGin")
    /\ routes' = {}
    /\ UNCHANGED <<sqlMigrations, walked, Migration, ldflags, Version, environ,
                   config, listeners, quit, notified, now, ctx,
                   inflight, lastResponse, result, commands, sorted>>

\* router.GET(basePath+"/version", ...)
GetVersion ==
    /\ Step("GET /version")
    /\ routes' = routes \cup {[method |-> "GET",
                               path |-> VersionPath(config.HTTP.Prefix),
                               handler |-> "version"]}
    /\ UNCHANGED <<sqlMigrations, walked, Migration, ldflags, Version, environ,
                   config, listeners, quit, notified, now, ctx,
                   inflight, lastResponse, result, commands, sorted>>

\* router.Group(basePath).GET("/hello", ...)
GetHello ==
    /\ Step("GET /hello")
    /\ routes' = routes \cup {[method |-> "GET",
                               path |-> HelloPath(config.HTTP.Prefix),
                               handler |-> "hello"]}
    /\ UNCHANGED <<sqlMigrations, walked, Migration, ldflags, Version, environ,
                   config, listeners, quit, notified, now, ctx,
                   inflight, lastResponse, result, commands, sorted>>

\* httpStart(): the HTTP listener binds its port and serves
HttpStart ==
    /\ Step("httpStart")
    /\ listeners' = listeners \cup {config.HTTP.Port}
    /\ UNCHANGED <<sqlMigrations, walked, Migration, ldflags, Version, environ,
                   config, routes, quit, notified, now, ctx,
                   inflight, lastResponse, result, commands, sorted>>

\* monitoring.ServeTelemetry(3030)
ServeTelemetry ==
    /\ Step("ServeTelemetry")
    /\ listeners' = listeners \cup {TelemetryPort}
    /\ UNCHANGED <<sqlMigrations, walked, Migration, ldflags, Version, environ,
                   config, routes, quit, notified, now, ctx,
                   inflight, lastResponse, result, commands, sorted>>

\* only the interrupt is registered
OnlyInterrupt == {"SIGINT"}

\* the signals Start registers for
NotifiedSignals == {"SIGINT", "SIGTERM"}

\* quit := make(chan os.Signal, 1); signal.Notify(quit, SIGINT, SIGTERM)
Notify ==
    /\ Step("Notify")
    /\ quit' = <<>>
    /\ notified' = NotifiedSignals
    /\ UNCHANGED <<sqlMigrations, walked, Migration, ldflags, Version, environ,
                   config, routes, listeners, now, ctx, inflight,
                   lastResponse, result, commands, sorted>>

\* <-quit
Receive ==
    /\ quit # <<>>
    /\ Step("<-quit")
    /\ quit' = Tail(quit)
    /\ UNCHANGED <<sqlMigrations, walked, Migration, ldflags, Version, environ,
                   config, routes, listeners, notified, now, ctx,
                   inflight, lastResponse, result, commands, sorted>>

\* a context that is never done
WithoutTimeout(timeout) == {}

\* the deadline is counted from the start of the process (instant 0)
WithTimeoutFromStart(timeout) == {timeout}

\* context.WithTimeout(context.Background(), config.ShutdownTimeout)
WithTimeout(timeout) == {now + timeout}

\* the environment is processed once more for the timeout
ShutdownTimeoutReread(cfg, env) == Process(env).ShutdownTimeout

\* config.ShutdownTimeout, as loaded
ShutdownTimeoutUsed(cfg, env) == cfg.ShutdownTimeout

MakeContext ==
    /\ Step("WithTimeout")
    /\ ctx' = WithTimeout(ShutdownTimeoutUsed(config, environ))
    /\ UNCHANGED <<sqlMigrations, walked, Migration, ldflags, Version, environ,
                   config, routes, listeners, quit, notified, now,
                   inflight, lastResponse, result, commands, sorted>>

Expired == \E d \in ctx : now >= d

\* the stop function only waits for the requests in flight
KeepListener(ls, port) == ls

\* the stop function closes the listener at once ...
CloseListener(ls, port) == ls \ {port}

\* httpStop(ctx) is called
HttpStop ==
    /\ Step("httpStop")
    /\ listeners' = CloseListener(listeners, config.HTTP.Port)
    /\ UNCHANGED <<sqlMigrations, walked, Migration, ldflags, Version, environ,
                   config, routes, quit, notified, now, ctx,
                   inflight, lastResponse, result, commands, sorted>>

\* ... and returns when no request is in flight or the context is done
StopReturns == inflight = {} \/ Expired

\* how the stop call can end: every request answered, requests left behind
\* at the deadline, or an error of the listener
StopOutcomes ==
    (IF inflight = {} THEN {"stop: drained"} ELSE {"stop: timeout"})
    \cup {"stop: error"}

HttpStopReturn ==
    /\ pc = "httpStop blocked"
    /\ StopReturns
    /\ pc' = After("httpStop blocked")
    /\ \E outcome \in StopOutcomes : trace' = Append(trace, outcome)
    /\ UNCHANGED <<sqlMigrations, walked, Migration, ldflags, Version, environ,
                   config, routes, listeners, quit, notified, now,
                   ctx, inflight, lastResponse, result,
                   commands, sorted>>

\* Start hands back what the stop call reported
ReturnStopError(outcome) == IF outcome = "stop: drained" THEN "nil" ELSE "error"

\* httpStop(ctx) is a statement, its outcome is dropped; return nil
ReturnValue(outcome) == "nil"

Return ==
    /\ Step("return")
    /\ result' = ReturnValue(trace[Len(trace)])
    /\ UNCHANGED <<sqlMigrations, walked, Migration, ldflags, Version, environ,
                   config, routes, listeners, quit, notified, now,
                   ctx, inflight, lastResponse, commands, sorted>>

\* cli.Run returns the action's nil and main returns
Exit ==
    /\ pc = "returned"
    /\ EndAs("exited")
    /\ UNCHANGED <<sqlMigrations, walked, Migration, ldflags, Version, environ,
                   config, routes, quit, notified, now, ctx,
                   lastResponse, result, trace, commands, sorted>>

\* ----------------------------------------------------------- environment
\* The OS delivers a signal.  A signal passed to signal.Notify is sent on
\* quit without blocking (dropped when the buffer is full); any other one
\* has its default effect, which for these three is to end the process.
Signal(sig) ==
    /\ Alive
    /\ IF sig \in notified
       THEN /\ quit' = IF Len(quit) < QuitCapacity THEN Append(quit, sig) ELSE quit
            /\ UNCHANGED <<pc, listeners, inflight>>
       ELSE /\ EndAs("killed")
            /\ UNCHANGED quit
    /\ UNCHANGED <<sqlMigrations, walked, Migration, ldflags, Version, environ,
                   config, routes, notified, now, ctx, lastResponse, result, trace, commands, sorted>>

\* SHUTDOWN_TIMEOUT is set to another valid duration while the process runs
Setenv ==
    /\ Alive
    /\ environ.SHUTDOWN_TIMEOUT # "1s"
    /\ environ' = [environ EXCEPT !.SHUTDOWN_TIMEOUT = "1s"]
    /\ UNCHANGED <<pc, sqlMigrations, walked, Migration, ldflags, Version,
                   config, routes, listeners, quit, notified, now, ctx,
                   inflight, lastResponse, result, trace, commands, sorted>>

\* Time passes.  The clock is read second by second up to MaxTime; later
\* than that the next instant looked at is the deadline the stop call waits
\* for.
Tick ==
    /\ Alive
    /\ \/ now < MaxTime
       \/ pc = "httpStop blocked" /\ \E d \in ctx : now < d
    /\ now' = IF now < MaxTime THEN now + 1 ELSE CHOOSE d \in ctx : now < d
    /\ UNCHANGED <<pc, sqlMigrations, walked, Migration, ldflags, Version, environ,
                   config, routes, listeners, quit, notified, ctx,
                   inflight, lastResponse, result, trace, commands, sorted>>

\* the HTTP listener accepts a connection and reads a request from it
AcceptUpTo(r, n) ==
    /\ Accepting
    /\ Cardinality(inflight) < n
    /\ inflight' = inflight \cup {r}
    /\ UNCHANGED <<pc, sqlMigrations, walked, Migration, ldflags, Version, environ,
                   config, routes, listeners, quit, notified, now,
                   ctx, lastResponse, result, trace, commands, sorted>>

Accept(r) == AcceptUpTo(r, MaxInflight)

\* a request in flight is dispatched and answered
Serve(r) ==
    /\ r \in inflight
    /\ inflight' = inflight \ {r}
    /\ lastResponse' = << [request |-> r] @@ ServeHTTP(routes, r, Version) >>
    /\ UNCHANGED <<pc, sqlMigrations, walked, Migration, ldflags, Version, environ,
                   config, routes, listeners, quit, notified, now,
                   ctx, result, trace, commands, sorted>>

\* ------------------------------------------------------ the specification
StartStep ==
    \/ MustProcess
    \/ InitGin
    \/ GetVersion
    \/ GetHello
    \/ HttpStart
    \/ ServeTelemetry
    \/ Notify
    \/ Receive
    \/ MakeContext
    \/ HttpStop
    \/ HttpStopReturn
    \/ Return

Next ==
    \/ Discover
    \/ InitReturn
    \/ Main
    \/ RunStart
    \/ RunDb
    \/ CallCliCommand
    \/ CallSorted
    \/ StartStep
    \/ Exit
    \/ \E sig \in Signals : Signal(sig)
    \/ Tick
    \/ \E r \in Requests : Accept(r)
    \/ \E r \in Requests : Serve(r)

Spec == Init /\ [][Next]_vars

\* The service with MaxConcurrent requests handled at a time, each in its own
\* goroutine, beside the main goroutine; the other callers of Sorted and
\* CliCommand and the changes of the environment are left out.
ConcurrentNext ==
    \/ Discover
    \/ InitReturn
    \/ Main
    \/ RunStart
    \/ StartStep
    \/ Exit
    \/ \E sig \in Signals : Signal(sig)
    \/ Tick
    \/ \E r \in Requests : AcceptUpTo(r, MaxConcurrent)
    \/ \E r \in Requests : Serve(r)

ConcurrentSpec == Init /\ [][ConcurrentNext]_vars

\* The main goroutine runs whenever it can, and time passes.
FairSpec == ConcurrentSpec /\ WF_vars(StartStep) /\ WF_vars(Tick)

\* The service in an environment that is changed while it runs.
ChangingEnvNext ==
    \/ ConcurrentNext
    \/ Setenv

ChangingEnvSpec == Init /\ [][ChangingEnvNext]_vars

\* ================================================================ claims
Events == {trace[i] : i \in DOMAIN trace}
Position(p) == IF p \in {StartOrder[i] : i \in DOMAIN StartOrder} THEN IndexOf(p) ELSE 0

\* C1: once Start has called the HTTP stop function with the timeout context,
\* the shutdown finishes: the call comes back, with the requests in flight
\* answered or left behind at the deadline, and Start returns nil (unless a
\* signal Start does not handle ends the process first).
ShutdownFinishes ==
    (pc = "httpStop blocked") ~> (result = "nil" \/ pc = "killed")

\* the stop function came back at the deadline with a request still in flight
ShutdownAbandonsRequest == pc = "return" /\ inflight # {} /\ Expired

\* C2: when the environment makes the configuration load fail, Start ends in
\* MustProcess: the router is never initialised and no listener binds a port.
ConfigFailureStartsNothing ==
    ProcessFails(environ) =>
        /\ listeners = {}
        /\ routes = {}
        /\ Events \subseteq {"MustProcess"}
        /\ Position(pc) <= Position("MustProcess")

ConfigLoadFailed ==
    /\ ProcessFails(environ)
    /\ pc = "panicked"
    /\ trace = <<"MustProcess">>

\* C3: when discovery of the embedded migrations fails, package initialisation
\* panics: main is never reached, no command runs, no request is served; and
\* a process that serves requests has registered every embedded migration.
Malformed(f) == f.kind # "other" /\ f.stamp = <<>>

RECURSIVE RegisterAll(_, _)
RegisterAll(ms, fs) ==
    IF fs = <<>> THEN ms
    ELSE RegisterAll(IF Head(fs).kind = "other" THEN ms ELSE Register(ms, Head(fs)),
                     Tail(fs))

Serving == Accepting \/ inflight # {} \/ lastResponse # <<>>

DiscoveryFailsFast ==
    /\ (\E i \in DOMAIN sqlMigrations : Malformed(sqlMigrations[i])) =>
          /\ pc \in {"init", "panicked", "killed"}
          /\ commands = <<>>
          /\ trace = <<>>
          /\ ~Serving
    /\ Serving =>
          /\ walked = Len(sqlMigrations)
          /\ Migration = RegisterAll(<<>>, sqlMigrations)

InitPanicked ==
    /\ pc = "panicked"
    /\ walked < Len(sqlMigrations)
    /\ Malformed(sqlMigrations[walked + 1])
    /\ Migration # <<>>

\* C4: the lifecycle events of Start happen in one fixed order, none skipped
\* or reordered: config, router, the two routes, HTTP listener, telemetry,
\* signal, stop, return; both routes exist while the listener accepts.
LifecycleOrder ==
    << "MustProcess", "InitGin", "GET /version", "GET /hello", "httpStart",
       "ServeTelemetry", "<-quit", "httpStop", "return" >>

RECURSIVE Lifecycle(_)
Lifecycle(t) ==
    IF t = <<>> THEN <<>>
    ELSE IF Head(t) \in {LifecycleOrder[i] : i \in DOMAIN LifecycleOrder}
         THEN <<Head(t)>> \o Lifecycle(Tail(t))
         ELSE Lifecycle(Tail(t))

StartFollowsLifecycle ==
    /\ Len(Lifecycle(trace)) <= Len(LifecycleOrder)
    /\ Lifecycle(trace) = SubSeq(LifecycleOrder, 1, Len(Lifecycle(trace)))
    /\ Accepting => {e.handler : e \in routes} = {"version", "hello"}

StartRanToTheEnd == result = "nil" /\ Lifecycle(trace) = LifecycleOrder

\* C5: every call of Migration.Sorted() after package initialisation returns
\* the same list: same length, same migrations, same order.
SortedIsStable ==
    \A i, j \in DOMAIN sorted : sorted[i] = sorted[j]

SortedCalledTwice == Len(sorted) >= 2 /\ Len(sorted[1]) >= 2

\* C6: every answer to GET {prefix}/hello is 200 with the body
\* {"message":"Hello, World!"}, whatever the query and the headers and
\* whatever was served before.
IsGet(resp, name) ==
    /\ resp.request.method = "GET"
    /\ resp.request.path = environ.HTTP_PATH_PREFIX \o <<name>>

HelloAnswer ==
    \A i \in DOMAIN lastResponse :
        IsGet(lastResponse[i], "hello") =>
            /\ lastResponse[i].status = 200
            /\ lastResponse[i].body = [message |-> "Hello, World!"]

HelloServedWithQuery ==
    /\ lastResponse # <<>>
    /\ IsGet(lastResponse[1], "hello")
    /\ lastResponse[1].request.query # ""
    /\ environ.HTTP_PATH_PREFIX # <<>>

\* C7: every answer to GET {prefix}/version is 200 with a "version" field
\* equal to the variable Version, which is "unknown" when the build gave it
\* no value.
VersionAnswer ==
    \A i \in DOMAIN lastResponse :
        IsGet(lastResponse[i], "version") =>
            /\ lastResponse[i].status = 200
            /\ lastResponse[i].body = [version |-> Version]
            /\ ldflags = None => lastResponse[i].body.version = "unknown"

VersionServedFromBuild ==
    /\ lastResponse # <<>>
    /\ IsGet(lastResponse[1], "version")
    /\ ldflags # None

\* C8: once the stop call has begun no new request is admitted, and a
\* request in flight is left behind by the stop call only at the deadline.
StopBegun == pc \in {"httpStop blocked", "return", "returned"}

StopAdmitsNothing ==
    [][/\ StopBegun => inflight' \subseteq inflight
       /\ (pc = "httpStop blocked" /\ pc' = "return" /\ inflight # {}) => Expired]_vars

StoppingWithRequest == pc = "httpStop blocked" /\ inflight # {} /\ ~Expired

\* C9: when the configuration cannot be processed the start action panics
\* out of Start; nothing, and in particular no error, is returned to the
\* CLI framework.
ConfigFailurePanics ==
    (ProcessFails(environ) /\ "MustProcess" \in Events) =>
        /\ pc = "panicked"
        /\ result = None

ActionPanicked ==
    /\ pc = "panicked"
    /\ "MustProcess" \in Events
    /\ environ.HTTP_PORT = None

\* C10: every call of CliCommand, from any goroutine, returns a new non-nil
\* command "app" / "Run the service" with the one subcommand "start" /
\* "Start application" whose action is set; any two results agree on name,
\* usage and number of subcommands.
CliCommandResult ==
    /\ \A i \in DOMAIN commands :
          /\ commands[i].addr # 0
          /\ commands[i].Name = "app"
          /\ commands[i].Usage = "Run the service"
          /\ Len(commands[i].Subcommands) = 1
          /\ commands[i].Subcommands[1].Name = "start"
          /\ commands[i].Subcommands[1].Usage = "Start application"
          /\ commands[i].Subcommands[1].Action # None
    /\ \A i, j \in DOMAIN commands :
          /\ i # j => commands[i].addr # commands[j].addr
          /\ commands[i].Name = commands[j].Name
          /\ commands[i].Usage = commands[j].Usage
          /\ Len(commands[i].Subcommands) = Len(commands[j].Subcommands)

CliCommandCalledTwice == Len(commands) >= 2 /\ Alive

\* C11: a list returned by Migration.Sorted() is in ascending lexical order
\* of name (each name is less than or equal to the next one) and holds every
\* discovered migration exactly once.
Stamps == {sqlMigrations[i].stamp : i \in {k \in DOMAIN sqlMigrations : sqlMigrations[k].kind # "other"}}

Ascending(l) ==
    \A i \in DOMAIN l : \A j \in DOMAIN l :
        i < j => l[i].name = l[j].name \/ LexLess(l[i].name, l[j].name)

SortedIsOrdered ==
    \A c \in DOMAIN sorted :
        /\ \A i \in 1 .. Len(sorted[c]) - 1 :
              ~LexLess(sorted[c][i + 1].name, sorted[c][i].name)
        /\ Ascending(sorted[c])
        /\ {sorted[c][i].name : i \in DOMAIN sorted[c]} = Stamps
        /\ Len(sorted[c]) = Cardinality(Stamps)

SortedReordered ==
    /\ sorted # <<>>
    /\ Len(sorted[1]) >= 2
    /\ sorted[1] # Migration

\* C12: calls of Migration.Sorted() made at any time by any goroutine after
\* package initialisation do not end the process, find the walk over, and
\* all return the complete list.
SortedSeesWholeRegistry ==
    /\ [](\A c \in DOMAIN sorted :
            sorted[c] = SortAsc(RegisterAll(<<>>, sqlMigrations)))
    /\ [][sorted' # sorted =>
            /\ walked = Len(sqlMigrations)
            /\ pc' \in {pc, "exited"}]_vars

SortedCalledWhileServing ==
    /\ Len(sorted) >= 2
    /\ Accepting
    /\ inflight # {}
    /\ Migration # <<>>

\* C13: Start calls the stop function at most once, after both listeners
\* were started and only once it has received a SIGINT or SIGTERM from quit;
\* quit is filled by signal deliveries alone, so without one Start neither
\* stops nor returns; a SIGINT or SIGTERM delivered after the registration is
\* kept in quit until Start receives it and then leads to the stop call.
StopCalls == Cardinality({i \in DOMAIN trace : trace[i] = "httpStop"})

StopOnlyOnSignal ==
    /\ [](/\ StopCalls <= 1
          /\ StopCalls = 1 => {"httpStart", "ServeTelemetry", "<-quit"} \subseteq Events
          /\ result = "nil" => StopCalls = 1
          /\ \A i \in DOMAIN quit : quit[i] \in {"SIGINT", "SIGTERM"})
    /\ [][/\ ("<-quit" \notin Events /\ "<-quit" \in {trace'[i] : i \in DOMAIN trace'})
              => quit # <<>>
          /\ Len(quit') > Len(quit) => \E sig \in {"SIGINT", "SIGTERM"} : Signal(sig)
          /\ \A sig \in {"SIGINT", "SIGTERM"} :
               (Signal(sig) /\ "Notify" \in Events /\ quit = <<>>) => quit' = <<sig>>]_vars
    /\ (pc = "<-quit" /\ quit # <<>>) ~> (StopCalls = 1 \/ pc = "killed")

StoppingWithSecondSignal == pc = "httpStop blocked" /\ StopCalls = 1 /\ quit # <<>>

\* C14: once a signal has been received, whatever the stop call reported
\* (drained, deadline passed, listener error), what Start returns is nil.
StopOutcome == Events \cap {"stop: drained", "stop: timeout", "stop: error"}

StartReturnsNil ==
    /\ result \in {None, "nil"}
    /\ (StopOutcome # {} /\ pc \in {"returned", "exited"}) => result = "nil"

ReturnedNilAfterFailedStop ==
    /\ result = "nil"
    /\ StopOutcome \cap {"stop: timeout", "stop: error"} # {}

\* C15: the deadline given to the stop function is the instant at which
\* Start, having received the signal, makes the context, plus the configured
\* ShutdownTimeout: the value of SHUTDOWN_TIMEOUT when it is set, 20 seconds
\* when it is not.  It is not counted from the start of the process.
ConfiguredTimeout(env) ==
    CASE env.SHUTDOWN_TIMEOUT = None -> 20
      [] env.SHUTDOWN_TIMEOUT = "1s" -> 1
      [] env.SHUTDOWN_TIMEOUT = "-1s" -> 0 - 1
      [] OTHER -> 0

DeadlineCountsFromSignal ==
    [][/\ config' # config => config'.ShutdownTimeout = ConfiguredTimeout(environ)
       /\ ctx' # ctx =>
            /\ "<-quit" \in Events
            /\ ctx' = {now + config.ShutdownTimeout}]_vars

DefaultDeadlineSet ==
    /\ pc = "httpStop"
    /\ now > 0
    /\ ctx = {now + 20}

\* C16: the configuration is written once, by the load at the beginning of
\* Start, and never again; the prefix of the registered routes and the
\* timeout of the shutdown context are the loaded values, whatever happens to
\* the environment afterwards.
ConfigWrittenOnce ==
    [][/\ config' # config =>
            /\ pc = "MustProcess"
            /\ config = ZeroConfig
            /\ trace = <<>>
       /\ \A e \in routes' \ routes :
            SubSeq(e.path, 1, Len(e.path) - 1) = config.HTTP.Prefix
       /\ \A d \in ctx' \ ctx : d - now = config.ShutdownTimeout
       /\ (pc = "WithTimeout" /\ pc' = "httpStop") => ctx' # {}]_vars

ContextAfterSetenv ==
    /\ ctx # {}
    /\ config.ShutdownTimeout # ConfiguredTimeout(environ)
    /\ routes # {}

\* C17: after package initialisation nothing changes the migration registry:
\* whatever step is taken once init has returned (starting the service,
\* serving /version and /hello, building the command tree, listing the
\* migrations, shutting down), Migration keeps its elements and their order,
\* and it is the registry init built from the embedded files.
RegistryFixedAfterInit ==
    /\ [][pc # "init" => Migration' = Migration]_vars
    /\ [](pc \in {"main", "cli.Run"} => Migration = RegisterAll(<<>>, sqlMigrations))

RegistryKeptThroughRun ==
    /\ pc = "exited"
    /\ result = "nil"
    /\ Len(Migration) >= 2
    /\ lastResponse # <<>>
    /\ Len(commands) >= 2
    /\ sorted # <<>>

\* C18: handlers and the main flow of Start share no state they could race
\* on.  While the server accepts requests or a request is being handled, no
\* step writes what a handler or the dispatch reads (Version, the routes),
\* nor the configuration or the registry; and the step of a handler changes
\* nothing of the application.
HandlerStep == pc' = pc /\ inflight' # inflight /\ inflight' \subseteq inflight

NoSharedMutableState ==
    [][/\ (Accepting \/ inflight # {}) =>
            /\ Version' = Version
            /\ routes' = routes
            /\ config' = config
            /\ Migration' = Migration
       /\ HandlerStep =>
            UNCHANGED <<Version, config, routes, Migration, walked, commands,
                        sorted, listeners, quit, notified, ctx, result,
                        trace, environ>>]_vars

HandlersBesideMainFlow ==
    /\ pc \in {"ServeTelemetry", "Notify", "WithTimeout", "httpStop"}
    /\ Cardinality(inflight) = 2
    /\ \E r \in inflight : r.path[Len(r.path)] = "version"
    /\ \E r \in inflight : r.path[Len(r.path)] = "hello"
    /\ lastResponse # <<>>

====
